---- MODULE Spec2Model ----
(***************************************************************************)
(* Model of the cache subsystem of calibre-api (src/calibre/cache.py) and  *)
(* of the request handlers of src/calibre/main.py that use it.             *)
(*                                                                         *)
(* The in-memory map PersistentCache._cache is a Python dict: it is kept   *)
(* here as a sequence of entries in dict insertion order, because          *)
(* min(self._cache, key=...) breaks ties by that order.                    *)
(***************************************************************************)
EXTENDS Integers, Sequences, FiniteSets, TLC

\* ---------------------------------------------------------------- bounds
MaxCap == 2     \* max_size is drawn from 0..MaxCap
MaxTtl == 2     \* default_ttl of the store; explicit TTLs are 0 and 1
MaxTime == 2    \* the clock runs from 0 to MaxTime

\* ---------------------------------------------------------------- values
None == "None"                  \* Python's None (a value, a missing argument, a miss)
Unserializable == "datetime"    \* a value json.dump raises TypeError on
Keys == {"a", "b", "c"}
Values == {"v1", Unserializable}
NoArg == <<>>                   \* an argument left out of the call
Expires == {NoArg, <<0>>, <<1>>}    \* <<n>> is expire=n
Healthy == {"ok"}                                   \* the disk takes every write
DiskOutcomes == {"ok", "open_fails", "write_fails"} \* open() or write() raises IOError

VARIABLES
    cache,        \* PersistentCache._cache, in dict order
    cache_file,   \* content of the file at PersistentCache._cache_file
    max_size,     \* PersistentCache._max_size
    default_ttl,  \* PersistentCache._default_ttl
    now,          \* time.time()
    up,           \* TRUE when a PersistentCache object exists
    last,         \* the latest store call and its outcome (observation only)
    instance,     \* FastAPICache._instance: None or "store"
    tasks,        \* the wrapped calls in flight, one per request task
    reply,        \* the latest wrapped call that ended and its outcome (observation only)
    probe,        \* two invocations and the keys derived for them (key derivation alone)
    lock,         \* PersistentCache._lock: "" when free, else the call that holds it
    calls,        \* the store calls in flight, one per caller, step by step
    API_KEY,      \* TokenManager.API_KEY
    environ,      \* os.environ: the value of API_TOKEN, or None
    config,       \* the file /config/calibre.conf
    answer,       \* the latest validate_api_token call and its outcome (observation only)
    loaded        \* the latest load_property call and its outcome (observation only)

storeVars == <<cache, cache_file, max_size, default_ttl, now, up, last>>

memoVars == <<instance, tasks, reply, probe>>

lockVars == <<lock, calls>>

secVars == <<API_KEY, environ, config, answer, loaded>>

vars == <<storeVars, memoVars, lockVars, secVars>>

\* ---------------------------------------------------------------- dict helpers
HasKey(c, k) == \E i \in 1..Len(c) : c[i].key = k

EntryOf(c, k) == c[CHOOSE i \in 1..Len(c) : c[i].key = k]

DelKey(c, k) == SelectSeq(c, LAMBDA e : e.key # k)

\* a write that leaves the entry of an existing key as it is
PutKeyKeepsFirst(c, k, e) == IF HasKey(c, k) THEN c ELSE Append(c, e)

\* d[k] = e : an existing key keeps its position, a new key goes last
PutKey(c, k, e) ==
    IF HasKey(c, k)
    THEN [i \in 1..Len(c) |-> IF c[i].key = k THEN e ELSE c[i]]
    ELSE Append(c, e)

KeysOf(c) == {c[i].key : i \in 1..Len(c)}

\* ---------------------------------------------------------------- snapshot file
Missing == [kind |-> "missing", data |-> <<>>]
Torn == [kind |-> "torn", data |-> <<>>]          \* truncated or partial JSON text

\* json.dump of a value: None is written as null, a string between quotes
JsonDump(v) == IF v = None THEN "null" ELSE "\"" \o v \o "\""

\* json.load of the text of a value
JsonLoad(s) == IF s = "null" THEN None ELSE SubSeq(s, 2, Len(s) - 1)

\* json.dump(self._cache, f, indent=2): every entry with its value as JSON text
Snapshot(c) ==
    [kind |-> "map",
     data |-> [i \in 1..Len(c) |-> [c[i] EXCEPT !.value = JsonDump(c[i].value)]]]

Serializable(v) == v # Unserializable

\* _save_cache: open(..., 'w') truncates, json.dump writes chunk by chunk;
\* only IOError is caught. disk is the state of the disk during the call.
SaveCache(c, f, disk) ==
    IF disk = "open_fails" THEN [file |-> f, raised |-> None]
    ELSE IF disk = "write_fails" THEN [file |-> Torn, raised |-> None]
    ELSE IF \E i \in 1..Len(c) : ~Serializable(c[i].value)
         THEN [file |-> Torn, raised |-> "TypeError"]
    ELSE [file |-> Snapshot(c), raised |-> None]

\* json.load(f): the entries of a snapshot with their values parsed
Parsed(f) == [i \in 1..Len(f.data) |-> [f.data[i] EXCEPT !.value = JsonLoad(f.data[i].value)]]

\* a load that keeps the entries already expired
LoadCacheUnfiltered(f, t) ==
    IF f.kind = "map" THEN [cache |-> Parsed(f), raised |-> None]
    ELSE [cache |-> <<>>, raised |-> None]

\* _load_cache: only json.JSONDecodeError and IOError are caught.
LoadCache(f, t) ==
    CASE f.kind = "missing" -> [cache |-> <<>>, raised |-> None]
      [] f.kind = "unreadable" -> [cache |-> <<>>, raised |-> None]
      [] f.kind = "torn" -> [cache |-> <<>>, raised |-> None]
      [] f.kind = "map" ->
            [cache |-> SelectSeq(Parsed(f), LAMBDA e : e.expires_at > t), raised |-> None]
      [] f.kind = "no_expires_at" -> [cache |-> <<>>, raised |-> "KeyError"]
      [] f.kind = "not_a_mapping" -> [cache |-> <<>>, raised |-> "AttributeError"]

\* ---------------------------------------------------------------- store operations
\* a _cleanup that removes the expired entries and does not save
CleanupNoSave(c, f, t, disk) ==
    [cache |-> SelectSeq(c, LAMBDA e : e.expires_at > t), file |-> f, raised |-> None]

\* a _cleanup that removes nothing
CleanupSkipped(c, f, t, disk) == [cache |-> c, file |-> f, raised |-> None]

\* _cleanup at time t
Cleanup(c, f, t, disk) ==
    LET kept == SelectSeq(c, LAMBDA e : e.expires_at > t)
    IN  IF Len(kept) = Len(c)
        THEN [cache |-> c, file |-> f, raised |-> None]
        ELSE LET s == SaveCache(kept, f, disk)
             IN  [cache |-> kept, file |-> s.file, raised |-> s.raised]

\* max() in place of min(): the most recently written entry is evicted
NewestKey(c) ==
    LET i == CHOOSE i \in 1..Len(c) :
                /\ \A j \in 1..Len(c) : c[i].timestamp >= c[j].timestamp
                /\ \A j \in 1..(i - 1) : c[j].timestamp < c[i].timestamp
    IN  c[i].key

\* min(self._cache, key=lambda k: self._cache[k]['timestamp']): the first
\* key in dict order among those of smallest timestamp
OldestKey(c) ==
    LET i == CHOOSE i \in 1..Len(c) :
                /\ \A j \in 1..Len(c) : c[i].timestamp <= c[j].timestamp
                /\ \A j \in 1..(i - 1) : c[j].timestamp > c[i].timestamp
    IN  c[i].key

\* a capacity test that is off by one: evicts only above max_size
FullOffByOne(c, msize) == Len(c) > msize

\* if len(self._cache) >= self._max_size
Full(c, msize) == Len(c) >= msize

\* ttl = expire or self._default_ttl
TtlOf(expire, dttl) == IF expire = NoArg \/ expire = <<0>> THEN dttl ELSE expire[1]

\* a get that saves the snapshot on every call
GetAlwaysSaves(c, f, key, t1, t2, disk) ==
    LET kept == SelectSeq(c, LAMBDA e : e.expires_at > t2)
    IN  [cache |-> kept, file |-> SaveCache(kept, f, disk).file,
         ret |-> IF HasKey(kept, key) THEN EntryOf(kept, key).value ELSE None,
         raised |-> SaveCache(kept, f, disk).raised]

\* a get that writes the time of the read into the entry it returns
GetTouches(c, f, key, t1, t2, disk) ==
    LET kept == SelectSeq(c, LAMBDA e : e.expires_at > t2)
    IN  IF HasKey(kept, key)
        THEN [cache |-> PutKey(kept, key, [EntryOf(kept, key) EXCEPT !.timestamp = t2]),
              file |-> f, ret |-> EntryOf(kept, key).value, raised |-> None]
        ELSE [cache |-> kept, file |-> f, ret |-> None, raised |-> None]

\* get(key): _cleanup reads the clock at t1, the liveness test at t2 >= t1
GetResult(c, f, key, t1, t2, disk) ==
    LET cl == Cleanup(c, f, t1, disk)
    IN  IF cl.raised # None
        THEN [cache |-> cl.cache, file |-> cl.file, ret |-> None, raised |-> cl.raised]
        ELSE IF HasKey(cl.cache, key) /\ EntryOf(cl.cache, key).expires_at > t2
        THEN [cache |-> cl.cache, file |-> cl.file,
              ret |-> EntryOf(cl.cache, key).value, raised |-> None]
        ELSE IF HasKey(cl.cache, key)
        THEN LET rest == DelKey(cl.cache, key)
                 s == SaveCache(rest, cl.file, disk)
             IN  [cache |-> rest, file |-> s.file, ret |-> None, raised |-> s.raised]
        ELSE [cache |-> cl.cache, file |-> cl.file, ret |-> None, raised |-> None]

\* a set that writes only over a key already in the map
SetOnlyUpdates(c, f, key, value, expire, t1, t2, disk, msize, dttl) ==
    LET e == [key |-> key, value |-> value, timestamp |-> t2,
              expires_at |-> t2 + TtlOf(expire, dttl)]
        c2 == IF HasKey(c, key) THEN PutKey(c, key, e) ELSE c
    IN  [cache |-> c2, file |-> SaveCache(c2, f, disk).file,
         raised |-> SaveCache(c2, f, disk).raised, evicted |-> <<>>]

\* set(key, value, expire): _cleanup reads the clock at t1, the insertion at t2;
\* min() of an empty dict raises ValueError
SetResult(c, f, key, value, expire, t1, t2, disk, msize, dttl) ==
    LET cl == Cleanup(c, f, t1, disk)
    IN  IF cl.raised # None
        THEN [cache |-> cl.cache, file |-> cl.file, raised |-> cl.raised, evicted |-> <<>>]
        ELSE IF Full(cl.cache, msize) /\ cl.cache = <<>>
        THEN [cache |-> cl.cache, file |-> cl.file, raised |-> "ValueError",
              evicted |-> <<>>]
        ELSE LET full == Full(cl.cache, msize)
                 room == IF full THEN DelKey(cl.cache, OldestKey(cl.cache)) ELSE cl.cache
                 e == [key |-> key, value |-> value, timestamp |-> t2,
                       expires_at |-> t2 + TtlOf(expire, dttl)]
                 c2 == PutKey(room, key, e)
                 s == SaveCache(c2, cl.file, disk)
             IN  [cache |-> c2, file |-> s.file, raised |-> s.raised,
                  evicted |-> IF full THEN <<OldestKey(cl.cache)>> ELSE <<>>]

\* a clear that empties the map and leaves the file as it is
ClearNoSave(c, f, key, disk) ==
    [cache |-> IF key # None /\ key # "" THEN DelKey(c, key) ELSE <<>>,
     file |-> f, raised |-> None]

\* a clear that also deletes the entries expired at the time of the call
ClearSweeps(c, f, key, disk) ==
    LET kept == SelectSeq(c, LAMBDA e : e.expires_at > now)
        c2 == IF key # None /\ key # "" THEN DelKey(kept, key) ELSE <<>>
    IN  [cache |-> c2, file |-> SaveCache(c2, f, disk).file,
         raised |-> SaveCache(c2, f, disk).raised]

\* clear(key): "if key:" is false for None and for the empty string
ClearResult(c, f, key, disk) ==
    LET c2 == IF key # None /\ key # "" THEN DelKey(c, key) ELSE <<>>
        s == SaveCache(c2, f, disk)
    IN  [cache |-> c2, file |-> s.file, raised |-> s.raised]

\* ---------------------------------------------------------------- actions
\* disk is the state of the disk during the call ("ok" where none is drawn),
\* expired the length of expired_keys in the _cleanup of a set
Call(op, key, expire, ret, raised, evicted) ==
    [op |-> op, key |-> key, expire |-> expire,
     ret |-> ret, raised |-> raised, evicted |-> evicted, disk |-> "ok",
     expired |-> 0]

\* expired_keys of _cleanup at time t
ExpiredKeys(c, t) == {c[i].key : i \in {j \in 1..Len(c) : c[j].expires_at <= t}}

Later(t) == {u \in {t, t + 1} : u <= MaxTime}

\* no request is being served
\* cleared: a clear of the key ran since the lookup of the call (observation only)
Idle == [pc |-> "idle", func |-> "", bound |-> "", expire |-> 0, key |-> "",
         hadLive |-> FALSE, cleared |-> FALSE]
Tasks == {"t1", "t2"}
NoReply == [func |-> "", bound |-> "", key |-> "", ret |-> None, raised |-> None,
            produced |-> "not_invoked", cleared |-> FALSE]
NoProbe == [a |-> <<>>, b |-> <<>>, ka |-> "", kb |-> "", done |-> FALSE]

\* no store call is in flight and the lock is free
Callers == {"p1", "p2"}
Resting == [pc |-> "idle", op |-> "", key |-> "", value |-> "", expire |-> NoArg,
            t1 |-> 0, pre |-> <<>>, raised |-> None]
NoCalls ==
    /\ lock = ""
    /\ calls = [p \in Callers |-> Resting]

\* TokenManager before init_token, no request checked, nothing configured
NoAnswer == [called |-> FALSE, key |-> None, header |-> None, query |-> None,
             ret |-> FALSE, status |-> 0]
NoLoaded == [called |-> FALSE, default |-> None, ret |-> None]
NoFile == [kind |-> "missing", value |-> None]
NoSec ==
    /\ API_KEY = None
    /\ environ = None
    /\ config = NoFile
    /\ answer = NoAnswer
    /\ loaded = NoLoaded

NoMemo ==
    /\ instance = None
    /\ tasks = [t \in Tasks |-> Idle]
    /\ reply = NoReply
    /\ probe = NoProbe

\* a PersistentCache(max_size, default_ttl) constructed where no snapshot exists
Init ==
    /\ max_size \in 0..MaxCap
    /\ default_ttl = MaxTtl
    /\ cache_file = Missing
    /\ now = 0
    /\ cache = LoadCache(cache_file, now).cache
    /\ up = TRUE
    /\ last = Call("init", None, NoArg, None, None, <<>>)
    /\ NoMemo
    /\ NoCalls
    /\ NoSec

Tick ==
    /\ now < MaxTime
    /\ now' = now + 1
    /\ last' = Call("tick", None, NoArg, None, None, <<>>)
    /\ UNCHANGED <<cache, cache_file, max_size, default_ttl, up, memoVars, lockVars, secVars>>

Get(K, D) ==
    \E key \in K, t2 \in Later(now), disk \in D :
        LET r == GetResult(cache, cache_file, key, now, t2, disk)
        IN  /\ up
            /\ cache' = r.cache
            /\ cache_file' = r.file
            /\ now' = t2
            /\ last' = [Call("get", key, NoArg, r.ret, r.raised, <<>>) EXCEPT !.disk = disk]
            /\ UNCHANGED <<max_size, default_ttl, up, memoVars, lockVars, secVars>>

Set(K, V, E, D) ==
    \E key \in K, value \in V, expire \in E, t2 \in Later(now), disk \in D :
        LET r == SetResult(cache, cache_file, key, value, expire, now, t2,
                           disk, max_size, default_ttl)
        IN  /\ up
            /\ cache' = r.cache
            /\ cache_file' = r.file
            /\ now' = t2
            /\ last' = [Call("set", key, expire, None, r.raised, r.evicted)
                            EXCEPT !.disk = disk,
                                   !.expired = Cardinality(ExpiredKeys(cache, now))]
            /\ UNCHANGED <<max_size, default_ttl, up, memoVars, lockVars, secVars>>

Clear(K, D) ==
    \E key \in K \cup {None, ""}, disk \in D :
        LET r == ClearResult(cache, cache_file, key, disk)
        IN  /\ up
            /\ cache' = r.cache
            /\ cache_file' = r.file
            /\ last' = [Call("clear", key, NoArg, None, r.raised, <<>>) EXCEPT !.disk = disk]
            /\ UNCHANGED <<max_size, default_ttl, now, up, memoVars, lockVars, secVars>>

\* the process exits and a new PersistentCache is constructed on the same file
Restart ==
    LET r == LoadCache(cache_file, now)
    IN  /\ up
        /\ cache' = r.cache
        /\ up' = (r.raised = None)
        /\ last' = Call("load", None, NoArg, None, r.raised, <<>>)
        /\ UNCHANGED <<cache_file, max_size, default_ttl, now, memoVars, lockVars, secVars>>

Next ==
    \/ Tick
    \/ Get(Keys, Healthy)
    \/ Set(Keys, Values, Expires, Healthy)
    \/ Clear(Keys, Healthy)
    \/ Restart

Spec == Init /\ [][Next]_vars

\* the same store on a disk whose writes may fail with IOError
DiskKeys == {"a", "b"}
DiskValues == {"v1"}
DiskExpires == {NoArg, <<1>>}

NextDisk ==
    \/ Tick
    \/ Get(DiskKeys, DiskOutcomes)
    \/ Set(DiskKeys, DiskValues, DiskExpires, DiskOutcomes)
    \/ Clear(DiskKeys, DiskOutcomes)
    \/ Restart

SpecDisk == Init /\ [][NextDisk]_vars

\* ---------------------------------------------------------------- crash during a write
\* where the process is killed inside the _save_cache that ends a set: before
\* open(..., 'w'), after it truncated the file, or while json.dump writes
CrashPoints == {"before_open", "after_open", "mid_write"}

\* the file a killed _save_cache leaves: open(..., 'w') writes in place
SaveCrash(f, point) == IF point = "before_open" THEN f ELSE Torn

\* set(key, value, expire) is killed inside its last _save_cache, and a new
\* PersistentCache is constructed on the file it left
SetCrash(K, V, E) ==
    \E key \in K, value \in V, expire \in E, point \in CrashPoints :
        LET cl == Cleanup(cache, cache_file, now, "ok")
            r == SetResult(cache, cache_file, key, value, expire, now, now,
                           "ok", max_size, default_ttl)
            left == SaveCrash(cl.file, point)
            load == LoadCache(left, now)
        IN  /\ up
            /\ r.raised = None
            /\ cache_file' = left
            /\ cache' = load.cache
            /\ up' = (load.raised = None)
            /\ last' = Call("crash", key, expire, None, load.raised, r.evicted)
            /\ UNCHANGED <<max_size, default_ttl, now, memoVars, lockVars, secVars>>

NextCrash ==
    \/ Tick
    \/ Get(DiskKeys, Healthy)
    \/ Set(DiskKeys, DiskValues, DiskExpires, Healthy)
    \/ Clear(DiskKeys, Healthy)
    \/ Restart
    \/ SetCrash(DiskKeys, DiskValues, DiskExpires)

SpecCrash == Init /\ [][NextCrash]_vars

\* ---------------------------------------------------------------- the lock
\* get, set and clear taken step by step: "async with self._lock", _cleanup,
\* the rest of the body, the exit of the with block. Another caller may run
\* between any two steps.
LockIgnored(l) == TRUE

\* a with block that keeps the lock when its body raised
HeldOnRaise(l, raised) == IF raised = None THEN "" ELSE l

\* asyncio.Lock.acquire goes on only when the lock is not held
Unlocked(l) == l = ""

\* the with block releases the lock, by return or by exception
Released(l, raised) == ""

\* a caller starts get(key), set(key, value, expire) or clear(key)
Enter(p, K, V, E) ==
    \E op \in {"get", "set", "clear"}, key \in K \cup {None}, value \in V \cup {""},
       expire \in E :
        /\ up
        /\ calls[p].pc = "idle"
        /\ key = None => op = "clear"
        /\ expire # NoArg => op = "set"
        /\ value # "" <=> op = "set"
        /\ calls' = [calls EXCEPT ![p] =
                [pc |-> "acquire", op |-> op, key |-> key, value |-> value,
                 expire |-> expire, t1 |-> 0, pre |-> <<>>, raised |-> None]]
        /\ UNCHANGED <<storeVars, memoVars, lock, secVars>>

\* async with self._lock: pre is the map and the file the call finds
Acquire(p) ==
    /\ calls[p].pc = "acquire"
    /\ Unlocked(lock)
    /\ lock' = p
    /\ calls' = [calls EXCEPT ![p].pc = "locked", ![p].pre = <<cache, cache_file>>]
    /\ UNCHANGED <<storeVars, memoVars, secVars>>

\* self._cleanup() at the head of get and of set
CleanupStep(p) ==
    LET cl == Cleanup(cache, cache_file, now, "ok")
    IN  /\ calls[p].pc = "locked"
        /\ calls[p].op \in {"get", "set"}
        /\ cache' = cl.cache
        /\ cache_file' = cl.file
        /\ IF cl.raised = None
           THEN /\ calls' = [calls EXCEPT ![p].pc = "cleaned", ![p].t1 = now]
                /\ UNCHANGED last
           ELSE /\ calls' = [calls EXCEPT ![p].pc = "done", ![p].raised = cl.raised]
                /\ last' = Call(calls[p].op, calls[p].key, calls[p].expire, None,
                                cl.raised, <<>>)
        /\ UNCHANGED <<max_size, default_ttl, now, up, memoVars, lock, secVars>>

\* the whole of a call q run on map c and file f, its cleanup at t1 and the
\* rest at t2
Outcome(c, f, q, t1, t2, msize, dttl) ==
    CASE q.op = "get" ->
            LET r == GetResult(c, f, q.key, t1, t2, "ok")
            IN  [cache |-> r.cache, file |-> r.file, ret |-> r.ret, raised |-> r.raised,
                 evicted |-> <<>>]
      [] q.op = "set" ->
            LET r == SetResult(c, f, q.key, q.value, q.expire, t1, t2, "ok", msize, dttl)
            IN  [cache |-> r.cache, file |-> r.file, ret |-> None, raised |-> r.raised,
                 evicted |-> r.evicted]
      [] q.op = "clear" ->
            LET r == ClearResult(c, f, q.key, "ok")
            IN  [cache |-> r.cache, file |-> r.file, ret |-> None, raised |-> r.raised,
                 evicted |-> <<>>]

\* the body after _cleanup (the whole body of clear), on the map as it is now
Finish(p) ==
    LET q == calls[p]
        r == Outcome(cache, cache_file, q, q.t1, now, max_size, default_ttl)
    IN  /\ \/ q.pc = "cleaned"
           \/ q.pc = "locked" /\ q.op = "clear"
        /\ cache' = r.cache
        /\ cache_file' = r.file
        /\ last' = Call(q.op, q.key, q.expire, r.ret, r.raised, r.evicted)
        /\ calls' = [calls EXCEPT ![p].pc = "done", ![p].raised = r.raised]
        /\ UNCHANGED <<max_size, default_ttl, now, up, memoVars, lock, secVars>>

\* the with block is left, by return or by exception
Release(p) ==
    /\ calls[p].pc = "done"
    /\ lock' = Released(lock, calls[p].raised)
    /\ calls' = [calls EXCEPT ![p] = Resting]
    /\ UNCHANGED <<storeVars, memoVars, secVars>>

NextLock ==
    \/ Tick
    \/ \E p \in Callers : Enter(p, DiskKeys, DiskValues, DiskExpires)
    \/ \E p \in Callers : Acquire(p)
    \/ \E p \in Callers : CleanupStep(p)
    \/ \E p \in Callers : Finish(p)
    \/ \E p \in Callers : Release(p)

SpecLock == Init /\ [][NextLock]_vars

\* the same callers with values json.dump raises on. A step of a call
\* inside the block is taken when it can be (the event loop runs every task
\* that is ready); a caller waiting on the lock gets it after finitely many
\* releases (asyncio.Lock wakes its waiters first come, first served).
LiveKeys == {"a"}
LiveExpires == {NoArg, <<1>>}

InitLive == Init /\ max_size = 1

NextLive ==
    \/ \E p \in Callers : Enter(p, LiveKeys, Values, LiveExpires)
    \/ \E p \in Callers : Acquire(p)
    \/ \E p \in Callers : CleanupStep(p)
    \/ \E p \in Callers : Finish(p)
    \/ \E p \in Callers : Release(p)

Fairness ==
    \A p \in Callers :
        /\ SF_vars(Acquire(p))
        /\ WF_vars(CleanupStep(p))
        /\ WF_vars(Finish(p))
        /\ WF_vars(Release(p))

SpecLive == InitLive /\ [][NextLive]_vars /\ Fairness

\* ---------------------------------------------------------------- construction alone
\* snapshot files a PersistentCache may be constructed on
Unreadable == [kind |-> "unreadable", data |-> <<>>]        \* open() raises IOError
NoExpiresAt == [kind |-> "no_expires_at", data |-> <<>>]    \* {"k": {"value": 1}}
NotAMapping == [kind |-> "not_a_mapping", data |-> <<>>]    \* []

FileEntries ==
    {[key |-> k, value |-> "v1", timestamp |-> 0, expires_at |-> x] :
        k \in {"a", "b"}, x \in 0..(MaxTime + 1)}

FileMaps ==
    {<<>>} \cup {<<e>> : e \in FileEntries}
           \cup {<<e1, e2>> : e1 \in {e \in FileEntries : e.key = "a"},
                              e2 \in {e \in FileEntries : e.key = "b"}}

LoadFiles ==
    {Missing, Torn, Unreadable, NoExpiresAt, NotAMapping} \cup {Snapshot(c) : c \in FileMaps}

InitLoad ==
    /\ max_size = MaxCap
    /\ default_ttl = MaxTtl
    /\ cache_file \in LoadFiles
    /\ now \in 0..MaxTime
    /\ cache = <<>>
    /\ up = FALSE
    /\ last = Call("init", None, NoArg, None, None, <<>>)
    /\ NoMemo
    /\ NoCalls
    /\ NoSec

\* PersistentCache.__init__: self._cache = {} and then self._load_cache()
Construct ==
    LET r == LoadCache(cache_file, now)
    IN  /\ ~up
        /\ last.op = "init"
        /\ cache' = r.cache
        /\ up' = (r.raised = None)
        /\ last' = Call("load", None, NoArg, None, r.raised, <<>>)
        /\ UNCHANGED <<cache_file, max_size, default_ttl, now, memoVars, lockVars, secVars>>

NextLoad == Construct

SpecLoad == InitLoad /\ [][NextLoad]_vars

\* ---------------------------------------------------------------- key derivation
\* Python values passed to a wrapped producer: t is the type, s the text of a
\* scalar, items the elements of a tuple or list
IntV(n) == [t |-> "int", s |-> ToString(n), items |-> <<>>]
StrV(x) == [t |-> "str", s |-> x, items |-> <<>>]
TupleV(xs) == [t |-> "tuple", s |-> "", items |-> xs]
ListV(xs) == [t |-> "list", s |-> "", items |-> xs]
ObjV == [t |-> "object", s |-> "", items |-> <<>>]

RECURSIVE Join(_, _)
Join(strs, sep) ==
    IF strs = <<>> THEN ""
    ELSE IF Len(strs) = 1 THEN strs[1]
    ELSE strs[1] \o sep \o Join(Tail(strs), sep)

\* json.dumps raises TypeError on v
RECURSIVE CanDump(_)
CanDump(v) ==
    /\ v.t # "object"
    /\ \A i \in 1..Len(v.items) : CanDump(v.items[i])

\* json.dumps(v): a tuple is written as a list
RECURSIVE Dumps(_)
Dumps(v) ==
    CASE v.t = "int" -> v.s
      [] v.t = "str" -> "\"" \o v.s \o "\""
      [] v.t \in {"tuple", "list"} ->
            "[" \o Join([i \in 1..Len(v.items) |-> Dumps(v.items[i])], ", ") \o "]"

\* json.dumps(kwargs): the keywords in the order of the call
DumpsKwargs(kw) ==
    "{" \o Join([i \in 1..Len(kw) |-> "\"" \o kw[i][1] \o "\": " \o Dumps(kw[i][2])], ", ")
        \o "}"

\* key = f"{func.__name__}_{json.dumps(args)}_{json.dumps(kwargs)}"
KeyOf(name, args, kwargs) ==
    IF \A i \in 1..Len(args) : CanDump(args[i])
    THEN IF \A i \in 1..Len(kwargs) : CanDump(kwargs[i][2])
         THEN [raised |-> None,
               key |-> name \o "_" \o Dumps(TupleV(args)) \o "_" \o DumpsKwargs(kwargs)]
         ELSE [raised |-> "TypeError", key |-> ""]
    ELSE [raised |-> "TypeError", key |-> ""]

\* producers: id is the function object, name its __name__
SearchDune == [id |-> "search_function<Dune>", name |-> "search_function"]
SearchFoundation == [id |-> "search_function<Foundation>", name |-> "search_function"]
FetchStats == [id |-> "fetch_stats", name |-> "fetch_stats"]
Lookup == [id |-> "lookup", name |-> "lookup"]

ArgLists ==
    {<<>>, <<IntV(1)>>, <<StrV("1")>>, <<TupleV(<<IntV(1), IntV(2)>>)>>,
     <<ListV(<<IntV(1), IntV(2)>>)>>, <<IntV(1), IntV(2)>>}

KwargLists ==
    {<<>>, <<<<"x", IntV(1)>>>>, <<<<"x", IntV(1)>>, <<"y", IntV(2)>>>>,
     <<<<"y", IntV(2)>>, <<"x", IntV(1)>>>>}

Invocations ==
    {[producer |-> f, args |-> a, kwargs |-> k] :
        f \in {SearchDune, SearchFoundation, FetchStats, Lookup},
        a \in ArgLists, k \in KwargLists}

InitKey ==
    /\ max_size = MaxCap
    /\ default_ttl = MaxTtl
    /\ cache_file = Missing
    /\ now = 0
    /\ cache = <<>>
    /\ up = FALSE
    /\ last = Call("init", None, NoArg, None, None, <<>>)
    /\ instance = None
    /\ tasks = [t \in Tasks |-> Idle]
    /\ reply = NoReply
    /\ NoCalls
    /\ NoSec
    /\ \E a \in Invocations, b \in Invocations :
           probe = [a |-> a, b |-> b, ka |-> "", kb |-> "", done |-> FALSE]

\* the first line of wrapper, for each of the two invocations
DeriveKeys ==
    /\ ~probe.done
    /\ probe' = [probe EXCEPT
                    !.ka = KeyOf(probe.a.producer.name, probe.a.args, probe.a.kwargs).key,
                    !.kb = KeyOf(probe.b.producer.name, probe.b.args, probe.b.kwargs).key,
                    !.done = TRUE]
    /\ UNCHANGED <<storeVars, instance, tasks, reply, lockVars, secVars>>

NextKey == DeriveKeys

SpecKey == InitKey /\ [][NextKey]_vars

\* ---------------------------------------------------------------- memoizer
ServiceMaxSize == 100       \* startup_event: max_size=100
ServiceDefaultTtl == 3600   \* startup_event: default_ttl=3600
StatsExpire == 3600         \* @cache(expire=3600) on fetch_stats
SearchExpire == 1800        \* @cache(expire=1800) on search_function
DefaultExpire == 3600       \* cache(expire: int = 3600)

HTTPException == "HTTPException"
Books(title) == "books:" \o title   \* what search_books finds for a title

\* the requests served: the producer, what its closure binds, its arguments
Requests ==
    {[func |-> "fetch_stats", bound |-> "", args |-> <<>>, expire |-> StatsExpire],
     [func |-> "search_function", bound |-> "Dune", args |-> <<>>, expire |-> SearchExpire],
     [func |-> "search_function", bound |-> "Foundation", args |-> <<>>,
      expire |-> SearchExpire],
     [func |-> "lookup", bound |-> "", args |-> <<IntV(1)>>, expire |-> DefaultExpire],
     [func |-> "lookup", bound |-> "", args |-> <<ObjV>>, expire |-> DefaultExpire]}

\* what the producer does when it is run: fetch_stats raises HTTPException
\* or returns a dict holding datetime.now(); search_function returns the rows
\* for the title its closure binds; lookup is any other producer
Results(func, bound) ==
    CASE func = "fetch_stats" -> {HTTPException, Unserializable}
      [] func = "search_function" -> {Books(bound)}
      [] func = "lookup" -> {None, "v1"}

InitMemo ==
    /\ max_size = ServiceMaxSize
    /\ default_ttl = ServiceDefaultTtl
    /\ cache_file = Missing
    /\ now = 0
    /\ cache = <<>>
    /\ up = FALSE
    /\ last = Call("init", None, NoArg, None, None, <<>>)
    /\ NoMemo
    /\ NoCalls
    /\ NoSec

\* startup_event: PersistentCache(...) and FastAPICache.init(persistent_cache)
Startup ==
    LET r == LoadCache(cache_file, now)
    IN  /\ instance = None
        /\ cache' = r.cache
        /\ up' = (r.raised = None)
        /\ instance' = IF r.raised = None THEN "store" ELSE None
        /\ last' = Call("load", None, NoArg, None, r.raised, <<>>)
        /\ UNCHANGED <<cache_file, max_size, default_ttl, now, tasks, reply, probe, lockVars, secVars>>

MemoTick ==
    /\ now + SearchExpire <= MaxTime * SearchExpire
    /\ now' = now + SearchExpire
    /\ UNCHANGED <<cache, cache_file, max_size, default_ttl, up, last, memoVars, lockVars, secVars>>

Ended(q, key, ret, raised, produced) ==
    [func |-> q.func, bound |-> q.bound, key |-> key, ret |-> ret, raised |-> raised,
     produced |-> produced, cleared |-> FALSE]

\* wrapper up to "result = await func(*args, **kwargs)": the key, the lookup
\* and the return of a hit. The clock moves between calls (MemoTick), not
\* inside one.
WrapperCall ==
    \E t \in Tasks, q \in Requests :
        LET k == KeyOf(q.func, q.args, <<>>)
            r == GetResult(cache, cache_file, k.key, now, now, "ok")
        IN  /\ tasks[t].pc = "idle"
            /\ UNCHANGED <<max_size, default_ttl, now, up, instance, probe, lockVars, secVars>>
            /\ IF k.raised # None
               THEN /\ reply' = Ended(q, "", None, k.raised, "not_invoked")
                    /\ UNCHANGED <<cache, cache_file, last, tasks>>
               ELSE IF instance = None
               THEN /\ reply' = Ended(q, k.key, None, "AttributeError", "not_invoked")
                    /\ UNCHANGED <<cache, cache_file, last, tasks>>
               ELSE /\ cache' = r.cache
                    /\ cache_file' = r.file
                    /\ last' = Call("get", k.key, NoArg, r.ret, r.raised, <<>>)
                    /\ IF r.raised # None
                       THEN /\ reply' = Ended(q, k.key, None, r.raised, "not_invoked")
                            /\ UNCHANGED tasks
                       ELSE IF r.ret # None
                       THEN /\ reply' = Ended(q, k.key, r.ret, None, "not_invoked")
                            /\ UNCHANGED tasks
                       ELSE /\ tasks' = [tasks EXCEPT ![t] =
                                   [pc |-> "computing", func |-> q.func,
                                    bound |-> q.bound, expire |-> q.expire,
                                    key |-> k.key, cleared |-> FALSE,
                                    hadLive |-> \E i \in 1..Len(cache) :
                                        /\ cache[i].key = k.key
                                        /\ cache[i].expires_at > now]]
                            /\ UNCHANGED reply

\* a wrapper that stores what a failed producer raised as if it were a result
RaisedNever(result) == FALSE

\* "result = await func(*args, **kwargs)" raises: nothing after it is run
Raised(result) == result = HTTPException

\* wrapper from "result = await func(*args, **kwargs)" on: the producer ends,
\* its result is stored and returned
WrapperReturn ==
    \E t \in Tasks :
        /\ tasks[t].pc = "computing"
        /\ \E result \in Results(tasks[t].func, tasks[t].bound) :
            LET q == tasks[t]
                r == SetResult(cache, cache_file, q.key, result, <<q.expire>>, now, now,
                               "ok", max_size, default_ttl)
            IN  /\ tasks' = [tasks EXCEPT ![t] = Idle]
                /\ UNCHANGED <<max_size, default_ttl, now, up, instance, probe, lockVars, secVars>>
                /\ IF Raised(result)
                   THEN /\ reply' = Ended(q, q.key, None, result, result)
                        /\ UNCHANGED <<cache, cache_file, last>>
                   ELSE /\ cache' = r.cache
                        /\ cache_file' = r.file
                        /\ last' = Call("set", q.key, <<q.expire>>, None, r.raised,
                                        r.evicted)
                        /\ reply' = [Ended(q, q.key,
                                           IF r.raised = None THEN result ELSE None,
                                           r.raised, result)
                                        EXCEPT !.cleared = q.cleared]

NextMemo == Startup \/ MemoTick \/ WrapperCall \/ WrapperReturn

SpecMemo == InitMemo /\ [][NextMemo]_vars

\* ---------------------------------------------------------------- clearing under the memoizer
\* the keys FastAPICache.clear is called with: none, or the key of a producer
ClearKeys == {None, "fetch_stats_[]_{}", "search_function_[]_{}"}

\* FastAPICache.clear(key): nothing without a backend, else the backend's clear(key)
CacheClear(K) ==
    \E key \in K :
        LET r == ClearResult(cache, cache_file, key, "ok")
            called == [func |-> "FastAPICache.clear", bound |-> instance, key |-> key,
                       ret |-> None, raised |-> None, produced |-> "not_invoked",
                       cleared |-> FALSE]
        IN  /\ UNCHANGED <<max_size, default_ttl, now, up, instance, probe, lockVars, secVars>>
            /\ IF instance = "store"
               THEN /\ cache' = r.cache
                    /\ cache_file' = r.file
                    /\ last' = Call("clear", key, NoArg, None, r.raised, <<>>)
                    /\ reply' = [called EXCEPT !.raised = r.raised]
                    /\ tasks' = [t \in Tasks |->
                            IF tasks[t].pc = "computing" /\ key \in {None, tasks[t].key}
                            THEN [tasks[t] EXCEPT !.cleared = TRUE]
                            ELSE tasks[t]]
               ELSE /\ reply' = called
                    /\ UNCHANGED <<cache, cache_file, last, tasks>>

NextClear == NextMemo \/ CacheClear(ClearKeys)

\* ---------------------------------------------------------------- the backend registry
\* an init that registers the backend it is given every time
RegisteredNever(inst) == FALSE

\* "if not cls._instance" is false: a PersistentCache defines neither
\* __bool__ nor __len__, so every backend object is true
Registered(inst) == inst # None

\* the PersistentCache of startup_event and another backend object
Backends == {"store", "other"}

\* FastAPICache.init(backend): registers the backend when none is, returns
\* the registered one (backend.init only prints)
CacheInit ==
    \E backend \in Backends :
        /\ instance' = IF Registered(instance) THEN instance ELSE backend
        /\ reply' = [func |-> "FastAPICache.init", bound |-> backend, key |-> "",
                     ret |-> instance', raised |-> None, produced |-> "not_invoked",
                     cleared |-> FALSE]
        /\ UNCHANGED <<storeVars, tasks, probe, lockVars, secVars>>

NextRegistry ==
    \/ Tick
    \/ Set(DiskKeys, DiskValues, DiskExpires, Healthy)
    \/ CacheInit
    \/ CacheClear(DiskKeys \cup {None})

SpecRegistry == Init /\ [][NextRegistry]_vars

SpecClear == InitMemo /\ [][NextClear]_vars

\* ---------------------------------------------------------------- the token
HTTP_500_INTERNAL_SERVER_ERROR == 500
HTTP_403_FORBIDDEN == 403

\* the truth value of a str or None
Truthy(x) == x \notin {None, ""}

\* /config/calibre.conf: absent, not parsable, without a [calibre] section,
\* or with one; value is the api_token of the section, None when it has none
ConfigFiles ==
    {NoFile, [kind |-> "unparsable", value |-> None], [kind |-> "no_section", value |-> None],
     [kind |-> "section", value |-> None], [kind |-> "section", value |-> ""],
     [kind |-> "section", value |-> "file-token"]}

Environs == {None, "", "env-token"}
Supplied == {None, "env-token", "file-token", "wrong"}
Defaults == {None, "default"}

\* load_property(prop_name, default): the file is read first, and a file
\* with a [calibre] section ends the search
LoadProperty(env, conf, default) ==
    IF conf.kind = "section"
    THEN IF conf.value = None THEN default ELSE conf.value
    ELSE IF env # None THEN env ELSE default

\* a validation that reads the query string before the header
ValidateQueryFirst(key, header, query) ==
    LET api_key == IF Truthy(query) THEN query ELSE header
    IN  IF ~Truthy(key) THEN [ret |-> FALSE, status |-> HTTP_500_INTERNAL_SERVER_ERROR]
        ELSE IF ~Truthy(api_key) \/ api_key # key
        THEN [ret |-> FALSE, status |-> HTTP_403_FORBIDDEN]
        ELSE [ret |-> TRUE, status |-> 0]

\* validate_api_token: status is that of the HTTPException raised, 0 when
\* True is returned
ValidateApiToken(key, header, query) ==
    LET api_key == IF Truthy(header) THEN header ELSE query
    IN  IF ~Truthy(key) THEN [ret |-> FALSE, status |-> HTTP_500_INTERNAL_SERVER_ERROR]
        ELSE IF ~Truthy(api_key) \/ api_key # key
        THEN [ret |-> FALSE, status |-> HTTP_403_FORBIDDEN]
        ELSE [ret |-> TRUE, status |-> 0]

InitToken ==
    /\ max_size = ServiceMaxSize
    /\ default_ttl = ServiceDefaultTtl
    /\ cache_file = Missing
    /\ now = 0
    /\ cache = <<>>
    /\ up = FALSE
    /\ last = Call("init", None, NoArg, None, None, <<>>)
    /\ NoMemo
    /\ NoCalls
    /\ API_KEY = None
    /\ environ \in Environs
    /\ config \in ConfigFiles
    /\ answer = NoAnswer
    /\ loaded = NoLoaded

\* TokenManager.init_token: the assignment stays when ValueError is raised
init_token ==
    /\ API_KEY' = LoadProperty(environ, config, None)
    /\ loaded' = [called |-> TRUE, default |-> None, ret |-> API_KEY']
    /\ UNCHANGED <<storeVars, memoVars, lockVars, environ, config, answer>>

\* load_property('API_TOKEN', default) called with any default
load_property ==
    \E default \in Defaults :
        /\ loaded' = [called |-> TRUE, default |-> default,
                      ret |-> LoadProperty(environ, config, default)]
        /\ UNCHANGED <<storeVars, memoVars, lockVars, API_KEY, environ, config, answer>>

\* a request comes with or without the X-API-Token header and the api_token
\* query parameter
validate_api_token ==
    \E header \in Supplied, query \in Supplied :
        LET r == ValidateApiToken(API_KEY, header, query)
        IN  /\ answer' = [called |-> TRUE, key |-> API_KEY, header |-> header,
                          query |-> query, ret |-> r.ret, status |-> r.status]
            /\ UNCHANGED <<storeVars, memoVars, lockVars, API_KEY, environ, config, loaded>>

NextToken == init_token \/ load_property \/ validate_api_token

SpecToken == InitToken /\ [][NextToken]_vars

\* ---------------------------------------------------------------- the Redis-backed revision
\* src/cache.py and src/app/main.py: CacheManager.cached_query under the
\* @cache decorator of the fastapi_cache library. The body of cached_query
\* is modelled; what the library does with its return value is not.
LibraryStatsExpire == 3600      \* get_library_statistics: expire=3600
BookSearchExpire == 1800        \* search_books: expire=1800

\* cache_key = f"book_search_{params.title}_{params.author}_{params.limit}"
BookSearchKey(title, author, limit) ==
    "book_search_" \o title \o "_" \o author \o "_" \o limit

\* the calls of cached_query the handlers make: bound is the title the
\* closure of query_func binds
QueryCalls ==
    {[func |-> "fetch_stats", bound |-> "", key |-> "library_stats",
      expire |-> LibraryStatsExpire]}
    \cup {[func |-> "search_function", bound |-> title,
           key |-> BookSearchKey(title, author, "10"), expire |-> BookSearchExpire] :
            title \in {"Dune", "Foundation"}, author \in {None, "Herbert"}}

\* what query_func does when it is awaited: get_database_stats and
\* search_books return their rows or raise HTTPException
QueryResults(func, bound) ==
    IF func = "fetch_stats" THEN {HTTPException, "stats"} ELSE {HTTPException, Books(bound)}

\* the body of cached_query: "except Exception" returns None
CachedQuery(outcome) ==
    IF Raised(outcome) THEN [ret |-> None, raised |-> None]
    ELSE [ret |-> outcome, raised |-> None]

\* cached_query up to "result = await query_func(*args, **kwargs)"
CachedQueryCall ==
    \E t \in Tasks, q \in QueryCalls :
        /\ tasks[t].pc = "idle"
        /\ tasks' = [tasks EXCEPT ![t] =
                [pc |-> "computing", func |-> q.func, bound |-> q.bound,
                 expire |-> q.expire, key |-> q.key, hadLive |-> FALSE,
                 cleared |-> FALSE]]
        /\ UNCHANGED <<storeVars, instance, reply, probe, lockVars, secVars>>

\* query_func ends and cached_query returns or raises
CachedQueryReturn ==
    \E t \in Tasks :
        /\ tasks[t].pc = "computing"
        /\ \E outcome \in QueryResults(tasks[t].func, tasks[t].bound) :
            LET r == CachedQuery(outcome)
            IN  /\ reply' = Ended(tasks[t], tasks[t].key, r.ret, r.raised, outcome)
                /\ tasks' = [tasks EXCEPT ![t] = Idle]
                /\ UNCHANGED <<storeVars, instance, probe, lockVars, secVars>>

NextRedis == CachedQueryCall \/ CachedQueryReturn

SpecRedis == InitMemo /\ [][NextRedis]_vars

\* ---------------------------------------------------------------- claims
LiveCount(c, t) == Cardinality({i \in 1..Len(c) : c[i].expires_at > t})

\* C1: immediately after a set returns, the map holds at most max_size live
\* entries (and at most max_size entries at all).
C1_LiveBoundAfterSet ==
    (last.op = "set" /\ last.raised = None) =>
        /\ LiveCount(cache, now) <= max_size
        /\ Len(cache) <= max_size

\* a set that evicted and left the map exactly full
C1_Witness ==
    /\ last.op = "set" /\ last.raised = None /\ last.evicted # <<>>
    /\ max_size = 2
    /\ LiveCount(cache, now) = 2

\* C2: when set evicts, the entry removed is one of smallest timestamp among
\* the entries live at cleanup time; every other live entry stays as it was.
C2_EvictsOldest ==
    [][(last'.op = "set" /\ last'.evicted # <<>>) =>
        LET gone == last'.evicted[1]
            live == {i \in 1..Len(cache) : cache[i].expires_at > now}
        IN  /\ \E i \in live :
                /\ cache[i].key = gone
                /\ \A j \in live : cache[i].timestamp <= cache[j].timestamp
            /\ gone # last'.key => ~HasKey(cache', gone)
            /\ \A j \in live :
                (cache[j].key # gone /\ cache[j].key # last'.key) =>
                    \E n \in 1..Len(cache') : cache'[n] = cache[j]
    ]_vars

\* max_size=2: a set at 0, b set at 1, c set at 2 leaves b and c, a evicted
C2_Witness ==
    /\ max_size = 2 /\ now = 2
    /\ last.op = "set" /\ last.key = "c" /\ last.evicted = <<"a">>
    /\ KeysOf(cache) = {"b", "c"}
    /\ EntryOf(cache, "b").timestamp = 1
    /\ EntryOf(cache, "c").timestamp = 2

\* C3: a get on a key whose entry has expired returns None and removes the
\* entry; a get on a key whose entry is live returns the stored value.
C3_GetReturnsNoneOnExpired ==
    [][last'.op = "get" =>
        \A i \in 1..Len(cache) :
            cache[i].key = last'.key =>
                IF cache[i].expires_at <= now'
                THEN /\ last'.raised = None
                     /\ last'.ret = None
                     /\ ~HasKey(cache', last'.key)
                ELSE /\ last'.raised = None
                     /\ last'.ret = cache[i].value
    ]_vars

\* C4: after set(key, value, expire) the entry's expires_at is its timestamp
\* plus expire, for every expire given, and plus default_ttl when none is.
C4_ExpiresAtFromGivenTtl ==
    (last.op = "set" /\ last.raised = None) =>
        LET e == EntryOf(cache, last.key)
        IN  e.expires_at = e.timestamp +
                (IF last.expire = NoArg THEN default_ttl ELSE last.expire[1])

\* C9: a failure while writing the snapshot never fails the get, set or
\* clear that triggered it.
C9_WriteFailureNeverFailsCall ==
    last.op \in {"get", "set", "clear"} => last.raised # "TypeError"

\* C10: constructing a PersistentCache never fails, whatever the snapshot
\* file holds; a file that is not a well-formed snapshot gives an empty map.
C10_ConstructionNeverFails ==
    last.op = "load" =>
        /\ last.raised = None
        /\ up
        /\ cache_file.kind # "map" => cache = <<>>

\* the keyword arguments as a mapping, whatever their order in the call
KwMap(kw) == {kw[i] : i \in 1..Len(kw)}

SameInvocation(a, b) ==
    /\ a.producer.id = b.producer.id
    /\ a.args = b.args
    /\ KwMap(a.kwargs) = KwMap(b.kwargs)

\* C7: the same producer with the same arguments (keywords in any order)
\* derives the same key; another producer or another argument, another key.
C7_KeyInjective ==
    probe.done =>
        /\ SameInvocation(probe.a, probe.b) => probe.ka = probe.kb
        /\ ~SameInvocation(probe.a, probe.b) => probe.ka # probe.kb

\* C5: the producer is run only when the store holds no live entry for the
\* derived key, whatever value a live entry stores.
C5_HitNeverInvokes ==
    \A t \in Tasks : tasks[t].pc = "computing" => ~tasks[t].hadLive

\* C6: a search request is answered with the rows for its own title, never
\* with the result cached for a request with another title.
C6_SearchRepliesOwnTitle ==
    (reply.func = "search_function" /\ reply.raised = None) =>
        reply.ret = Books(reply.bound)

\* C8: when the producer returned a result, the wrapped call returns that
\* result, whatever fails in the cache.
C8_CacheNeverFailsCall ==
    reply.produced \notin {"not_invoked", HTTPException} =>
        (reply.raised = None /\ reply.ret = reply.produced)

\* C11: a PersistentCache constructed on the snapshot a prior instance wrote
\* holds exactly the prior instance's entries still live at load time, with
\* the same values and timestamps, and none of the expired ones.
C11_RoundTrip ==
    [][(last'.op = "load" /\ cache_file.kind = "map") =>
        /\ \A i \in 1..Len(cache) :
                cache[i].expires_at > now => \E n \in 1..Len(cache') : cache'[n] = cache[i]
        /\ \A n \in 1..Len(cache') :
                \E i \in 1..Len(cache) :
                    cache[i] = cache'[n] /\ cache[i].expires_at > now
    ]_vars

\* a load that kept a live entry and dropped an expired one of the snapshot
C11_Witness ==
    /\ last.op = "load"
    /\ cache # <<>>
    /\ cache_file.kind = "map"
    /\ Len(cache_file.data) > Len(cache)

\* C12: a crash between a mutation and the end of its snapshot write loses
\* at most that mutation: the store constructed on the file left behind
\* still holds every earlier live entry the mutation did not touch.
C12_CrashLosesAtMostLast ==
    [][last'.op = "crash" =>
        \A i \in 1..Len(cache) :
            (/\ cache[i].expires_at > now
             /\ cache[i].key # last'.key
             /\ <<cache[i].key>> # last'.evicted) =>
                \E n \in 1..Len(cache') : cache'[n] = cache[i]
    ]_vars

\* C13: when a set or a clear returns after its snapshot write succeeded, the
\* snapshot holds the in-memory map (same keys, values, timestamps); so it
\* does after a get whose cleanup or lookup removed an expired entry.
C13_WriteThrough ==
    [][(/\ last'.raised = None
        /\ last'.disk = "ok"
        /\ \/ last'.op \in {"set", "clear"}
           \/ last'.op = "get" /\ Len(cache') < Len(cache)) =>
        /\ cache_file'.kind = "map"
        /\ Len(cache_file'.data) = Len(cache')
        /\ \A i \in 1..Len(cache') :
            /\ cache_file'.data[i].key = cache'[i].key
            /\ JsonLoad(cache_file'.data[i].value) = cache'[i].value
            /\ cache_file'.data[i].timestamp = cache'[i].timestamp
            /\ cache_file'.data[i].expires_at = cache'[i].expires_at
    ]_vars

\* a set that returned after its write succeeded and left two entries
C13_Witness ==
    /\ last.op = "set" /\ last.raised = None /\ last.disk = "ok"
    /\ Len(cache) = 2
    /\ cache_file = Snapshot(cache)

\* C14: when the producer fails, the wrapped call fails with the same failure
\* and writes nothing to the store, so the next call with that key runs the
\* producer again.
C14_NoNegativeCaching ==
    [][(/\ \E t \in Tasks : tasks[t].pc = "computing" /\ tasks'[t].pc = "idle"
        /\ reply'.produced = HTTPException) =>
        /\ reply'.raised = HTTPException
        /\ cache' = cache
        /\ cache_file' = cache_file
    ]_vars

\* fetch_stats raised HTTPException and the store holds nothing for its key
C14_Witness ==
    /\ instance = "store"
    /\ reply.produced = HTTPException
    /\ reply.raised = HTTPException
    /\ ~HasKey(cache, reply.key)

\* C15: on a miss the wrapped call runs the producer, stores its result under
\* the derived key with the decorator's TTL and returns that result; a get
\* of the key right afterwards returns the result.
C15_MissStoresAndReturns ==
    [][\A t \in Tasks :
        (/\ tasks[t].pc = "computing" /\ tasks'[t].pc = "idle"
         /\ reply'.produced # HTTPException) =>
            /\ reply'.raised = None
            /\ reply'.ret = reply'.produced
            /\ last'.op = "set"
            /\ last'.key = tasks[t].key
            /\ last'.expire = <<tasks[t].expire>>
            /\ GetResult(cache', cache_file', tasks[t].key, now', now', "ok").ret
                    = reply'.produced
    ]_vars

\* C16: clear(key) with any key string removes the entry of that key alone
\* and leaves every other entry as it was; only clear() without a key
\* removes all entries.
C16_ClearKeyRemovesOnlyKey ==
    [][(last'.op = "clear" /\ last'.key # None) =>
        /\ ~HasKey(cache', last'.key)
        /\ \A i \in 1..Len(cache) :
                cache[i].key # last'.key => \E n \in 1..Len(cache') : cache'[n] = cache[i]
    ]_vars

Inside(cs) == {p \in Callers : cs[p].pc \in {"locked", "cleaned", "done"}}

\* C18: at most one of get, set, clear is inside its critical section, and
\* each call leaves the map, the snapshot and its result as if it had run
\* alone on what it found when it took the lock: the calls are in the order
\* in which they took the lock.
C18_MutualExclusion ==
    [][/\ Cardinality(Inside(calls')) <= 1
       /\ \A p \in Callers :
            (calls[p].pc \in {"locked", "cleaned"} /\ calls'[p].pc = "done") =>
                LET q == calls[p]
                    alone == Outcome(q.pre[1], q.pre[2], q,
                                     IF q.pc = "cleaned" THEN q.t1 ELSE now, now,
                                     max_size, default_ttl)
                IN  /\ cache' = alone.cache
                    /\ cache_file' = alone.file
                    /\ last'.ret = alone.ret
                    /\ last'.raised = alone.raised
    ]_vars

\* one caller is past its cleanup while the other waits for the lock
C18_Witness ==
    /\ lock = "p1"
    /\ calls["p1"].pc = "cleaned"
    /\ calls["p2"].pc = "acquire"
    /\ cache # <<>>

\* C19: two callers may both miss on one key and both run the producer;
\* each set that then returns leaves exactly one entry for the key, holding
\* the value of that set, so the later writer wins.
C19_LastWriterWins ==
    [][\A t \in Tasks :
        (/\ tasks[t].pc = "computing" /\ tasks'[t].pc = "idle"
         /\ reply'.raised = None) =>
            /\ Cardinality({i \in 1..Len(cache') : cache'[i].key = tasks[t].key}) = 1
            /\ EntryOf(cache', tasks[t].key).value = reply'.produced
    ]_vars

\* both callers missed on the key of search_function and both run the
\* producer, one for each title
C19_Witness ==
    /\ tasks["t1"].pc = "computing" /\ tasks["t2"].pc = "computing"
    /\ tasks["t1"].key = tasks["t2"].key
    /\ tasks["t1"].bound = "Dune" /\ tasks["t2"].bound = "Foundation"

\* C20: a max_size of 0 or less is rejected when the PersistentCache is
\* constructed; it never shows later as the failure of a get or a set.
C20_InvalidConfigRejected ==
    (max_size <= 0 /\ last.op \in {"get", "set"}) => last.raised = None

\* C21: a set on a key already in the map leaves exactly one entry for the
\* key and removes no other live key, even when the map is at capacity.
C21_OverwriteInPlace ==
    [][(last'.op = "set" /\ last'.raised = None /\ HasKey(cache, last'.key)) =>
        /\ Cardinality({i \in 1..Len(cache') : cache'[i].key = last'.key}) = 1
        /\ EntryOf(cache', last'.key).timestamp = now'
        /\ \A i \in 1..Len(cache) :
                (cache[i].key # last'.key /\ cache[i].expires_at > now') =>
                    HasKey(cache', cache[i].key)
    ]_vars

\* C22: a set on a map of max_size entries of which one or more have expired
\* removes the expired entries and evicts no live entry; no set removes more
\* than one live entry.
C22_ExpiredNeverCount ==
    [][last'.op = "set" =>
        LET live == {i \in 1..Len(cache) : cache[i].expires_at > now}
            lost == {i \in live : cache[i].key # last'.key /\ ~HasKey(cache', cache[i].key)}
        IN  /\ Cardinality(lost) <= 1
            /\ (Len(cache) = max_size /\ ExpiredKeys(cache, now) # {}) =>
                /\ last'.evicted = <<>>
                /\ lost = {}
                /\ \A i \in 1..Len(cache) :
                        cache[i].expires_at <= now =>
                            ~\E n \in 1..Len(cache') : cache'[n] = cache[i]
    ]_vars

\* a set found two entries in a map of max_size 2, one of them expired, and
\* left the map full without evicting
C22_Witness ==
    /\ max_size = 2
    /\ last.op = "set" /\ last.raised = None
    /\ last.expired = 1 /\ last.evicted = <<>>
    /\ LiveCount(cache, now) = 2

\* C23: the passage of time changes neither the map nor the snapshot; an
\* expired entry stays in the map, and in the snapshot written by clear(key)
\* for another key; only get, set, clear and load change the map.
C23_LazyExpiry ==
    [][/\ last'.op = "tick" => (cache' = cache /\ cache_file' = cache_file)
       /\ cache' # cache => last'.op \in {"get", "set", "clear", "load"}
       /\ (last'.op = "clear" /\ last'.key \notin {None, ""}) =>
            /\ \A i \in 1..Len(cache) :
                    cache[i].key # last'.key =>
                        \E n \in 1..Len(cache') : cache'[n] = cache[i]
            /\ last'.raised = None => cache_file' = Snapshot(cache')
    ]_vars

\* clear('a') left an expired entry of another key in the map and wrote it
\* to the snapshot
C23_Witness ==
    /\ last.op = "clear" /\ last.key = "a" /\ last.raised = None
    /\ \E i \in 1..Len(cache) : cache[i].expires_at <= now
    /\ cache_file = Snapshot(cache)

\* C24: get changes the timestamp of no entry, so the entry the next set
\* evicts is the one it would have evicted had the get not been made; an
\* entry changes only by a set on its own key.
C24_EvictionByInsertionTime ==
    [][/\ \A n \in 1..Len(cache') :
            \/ last'.op = "set" /\ cache'[n].key = last'.key
            \/ \E i \in 1..Len(cache) : cache[i] = cache'[n]
       /\ last'.op = "get" =>
            \A k \in Keys, ts \in Later(now') :
                SetResult(cache', cache_file', k, "v1", NoArg, ts, ts, "ok",
                          max_size, default_ttl).evicted
                    = SetResult(cache, cache_file, k, "v1", NoArg, ts, ts, "ok",
                                max_size, default_ttl).evicted
    ]_vars

\* a get returned the oldest entry of a full map, which is still the oldest
C24_Witness ==
    /\ max_size = 2 /\ Len(cache) = 2
    /\ last.op = "get" /\ last.ret # None
    /\ last.key = OldestKey(cache)
    /\ EntryOf(cache, last.key).timestamp < now

\* C25: a get on a store that holds no expired entry leaves the map and the
\* snapshot file as they were, whether the key is present or absent.
C25_GetReadOnly ==
    [][(last'.op = "get" /\ ExpiredKeys(cache, now') = {}) =>
        /\ cache' = cache
        /\ cache_file' = cache_file
        /\ last'.raised = None
        /\ last'.ret = IF HasKey(cache, last'.key)
                       THEN EntryOf(cache, last'.key).value ELSE None
    ]_vars

\* a get returned the value of a live entry from a map of two live entries
C25_Witness ==
    /\ last.op = "get" /\ last.ret # None
    /\ Len(cache) = 2
    /\ ExpiredKeys(cache, now) = {}
    /\ now > 0

\* C26: a clear of the key, or of everything, that ran between the miss of
\* a wrapped call and its set does not cancel the write: when the call
\* returns, the key is in the map again with the result of that call.
C26_ClearDoesNotCancelSet ==
    [][\A t \in Tasks :
        (/\ tasks[t].pc = "computing" /\ tasks'[t].pc = "idle"
         /\ tasks[t].cleared
         /\ reply'.raised = None) =>
            /\ reply'.ret = reply'.produced
            /\ HasKey(cache', tasks[t].key)
            /\ EntryOf(cache', tasks[t].key).value = reply'.produced
            /\ EntryOf(cache', tasks[t].key).timestamp = now
            /\ cache_file' = Snapshot(cache')
    ]_vars

\* a search returned after a clear ran during its producer, and its rows are
\* in the map
C26_Witness ==
    /\ reply.func = "search_function" /\ reply.raised = None
    /\ reply.cleared
    /\ HasKey(cache, reply.key)
    /\ EntryOf(cache, reply.key).value = reply.produced

\* C27: a get, set or clear that has been called gets the lock and ends,
\* whether it returns or raises, so the lock is never held forever.
C27_LockAlwaysReleased ==
    \A p \in Callers :
        /\ (calls[p].pc # "idle") ~> (calls[p].pc = "idle")
        /\ (lock = p) ~> (lock # p)

\* a set whose snapshot write raised is about to leave the with block while
\* the other caller waits for the lock
C27_Witness ==
    /\ lock = "p1"
    /\ calls["p1"].pc = "done" /\ calls["p1"].raised = "TypeError"
    /\ calls["p2"].pc = "acquire"

\* C28: FastAPICache holds at most one backend, fixed by the first init: a
\* later init with another backend leaves it and returns it; clear does
\* nothing while no backend is registered and else passes its key to the
\* clear of the backend.
C28_BackendFixedByFirstInit ==
    [][/\ instance # None => instance' = instance
       /\ (reply' # reply /\ reply'.func = "FastAPICache.init") =>
            /\ instance' = IF instance = None THEN reply'.bound ELSE instance
            /\ reply'.ret = instance'
            /\ UNCHANGED <<cache, cache_file, last>>
       /\ (reply' # reply /\ reply'.func = "FastAPICache.clear") =>
            /\ instance' = instance
            /\ reply'.bound = instance
            /\ instance = None => UNCHANGED <<cache, cache_file, last>>
            /\ instance = "store" =>
                /\ last'.op = "clear" /\ last'.key = reply'.key
                /\ cache' = IF reply'.key = None THEN <<>> ELSE DelKey(cache, reply'.key)
    ]_vars

\* an init with another backend after the first returned the first backend
C28_Witness ==
    /\ reply.func = "FastAPICache.init"
    /\ reply.bound = "other"
    /\ reply.ret = "store"
    /\ instance = "store"

\* C29: validate_api_token returns True only when a token is configured and
\* the token supplied (the header when there is one, else the query
\* parameter) equals it; with no token configured the request is rejected
\* with 500, with a missing or different token with 403.
C29_TokenGate ==
    answer.called =>
        LET supplied == IF answer.header # None THEN answer.header ELSE answer.query
            configured == answer.key # None /\ answer.key # ""
        IN  /\ answer.ret <=> (configured /\ supplied = answer.key)
            /\ ~configured => answer.status = 500
            /\ (configured /\ supplied # answer.key) => answer.status = 403
            /\ answer.ret => answer.status = 0

\* a request with a wrong header and the right query parameter was rejected
C29_Witness ==
    /\ answer.called
    /\ answer.key = "file-token"
    /\ answer.header = "wrong" /\ answer.query = "file-token"
    /\ answer.status = 403

\* C30: load_property returns the environment variable when it is set, else
\* the value of the configuration file, and the default only when neither
\* defines the property.
C30_EnvironmentFirst ==
    loaded.called =>
        loaded.ret = IF environ # None THEN environ
                     ELSE IF config.kind = "section" /\ config.value # None
                          THEN config.value
                     ELSE loaded.default

\* C31: when the query function given to cached_query fails, cached_query
\* fails with the same failure and returns no value that could be cached.
C31_QueryFailurePropagates ==
    [][\A t \in Tasks :
        (/\ tasks[t].pc = "computing" /\ tasks'[t].pc = "idle"
         /\ reply'.produced = HTTPException) =>
            reply'.raised = reply'.produced
    ]_vars

====
